---- MODULE Spec2Model ----
(***************************************************************************)
(* State-machine model of the club directory (src/src/App.jsx).            *)
(*                                                                         *)
(* A JavaScript string is a sequence of one-character strings, so that     *)
(* trim, toLowerCase, join, split and includes are computed and not        *)
(* assumed.  A property that may be missing from an object is a field      *)
(* that may be missing from the record's DOMAIN.  A parameter that may be  *)
(* undefined is a sequence of length at most one (<<>> is undefined,       *)
(* <<v>> is the value v).                                                  *)
(***************************************************************************)
EXTENDS Integers, Sequences, FiniteSets, TLC

VARIABLES
  heartedIds,      \* App: useLocalStorageState("heartedClubIds", [])
  search,          \* App: useState("")
  discoverMode,    \* App: useState("clubs")
  userClubs,       \* App: useLocalStorageState("userClubs", [])
  userRequests,    \* App: useLocalStorageState("userRequests", [])
  isRequestOpen,   \* App: useState(false)
  isRegisterOpen,  \* App: useState(false)
  selectedTags,    \* App: useState([])
  themeTags,       \* App: useState(() => pickRandomUnique(...)), no setter
  clubForm,        \* NewClubForm: the six useState("") fields
  requestForm,     \* NewRequestForm: the eight useState fields
  localStorage,    \* the browser's store: key -> raw text, or no entry;
                   \* writable: whether setItem succeeds
  lastHandler,     \* the event handler or page load that produced the state
  call,            \* arguments of a direct call of a pure function
  ret              \* what that call returned

vars == <<heartedIds, search, discoverMode, userClubs, userRequests,
          isRequestOpen, isRegisterOpen, selectedTags, themeTags, clubForm,
          requestForm, localStorage, lastHandler, call, ret>>

appVars == <<heartedIds, search, discoverMode, userClubs, userRequests,
             isRequestOpen, isRegisterOpen, selectedTags, themeTags,
             clubForm, requestForm, localStorage, lastHandler>>

(***************************************************************************)
(* Bounds of the model.                                                    *)
(***************************************************************************)
MaxUserClubs == 2      \* user-added clubs kept in one run
MaxUserRequests == 2   \* user-added requests kept in one run
RandRange == 2         \* Math.random() * 1000000 is drawn from 0..RandRange-1
MaxArr == 3            \* longest master list handed to pickRandomUnique
MaxStored == 1         \* records of a kind added in a session with the store

(***************************************************************************)
(* JavaScript strings.                                                     *)
(***************************************************************************)
Min(a, b) == IF a < b THEN a ELSE b
Max(a, b) == IF a > b THEN a ELSE b

Range(s) == {s[i] : i \in 1..Len(s)}

\* String.prototype.toLowerCase, on the letters the inputs use
LowerChar(c) ==
  CASE c = "A" -> "a"
    [] c = "B" -> "b"
    [] c = "C" -> "c"
    [] c = "W" -> "w"
    [] OTHER -> c

toLowerCase(s) == [i \in 1..Len(s) |-> LowerChar(s[i])]

RECURSIVE TrimStart(_)
TrimStart(s) ==
  IF s # <<>> /\ Head(s) = " " THEN TrimStart(Tail(s)) ELSE s

RECURSIVE TrimEnd(_)
TrimEnd(s) ==
  IF s # <<>> /\ s[Len(s)] = " " THEN TrimEnd(SubSeq(s, 1, Len(s) - 1)) ELSE s

\* String.prototype.trim
trim(s) == TrimEnd(TrimStart(s))

\* String.prototype.includes
includes(hay, needle) ==
  \E i \in 0..(Len(hay) - Len(needle)) :
    SubSeq(hay, i + 1, i + Len(needle)) = needle

\* Array.prototype.join over strings; undefined entries were made "" by Prop
RECURSIVE join(_, _)
join(list, sep) ==
  IF list = <<>> THEN <<>>
  ELSE IF Len(list) = 1 THEN list[1]
  ELSE list[1] \o sep \o join(Tail(list), sep)

\* String.prototype.split(",")
RECURSIVE split(_)
split(s) ==
  IF \A i \in 1..Len(s) : s[i] # ","
  THEN <<s>>
  ELSE LET i == CHOOSE k \in 1..Len(s) :
                  s[k] = "," /\ \A m \in 1..(k - 1) : s[m] # ","
       IN <<SubSeq(s, 1, i - 1)>> \o split(SubSeq(s, i + 1, Len(s)))

\* obj.field, or the default where the property is missing
Prop(obj, field, default) ==
  IF field \in DOMAIN obj THEN obj[field] ELSE default

\* the (x || []) and the undefined-joins-as-"" of the field lists
ListProp(obj, field) == Prop(obj, field, <<>>)
StrProp(obj, field) == Prop(obj, field, <<>>)

normalize(s) == toLowerCase(trim(s))

(***************************************************************************)
(* The filter predicates.                                                  *)
(***************************************************************************)
ClubFields(club) ==
  <<StrProp(club, "name"), StrProp(club, "description")>>
    \o ListProp(club, "interests")
    \o ListProp(club, "vibes")
    \o ListProp(club, "collab_needs")

\* a matchesQuery that joins without the separator
matchesQuery_Concat(club, q) ==
  IF q = <<>> THEN TRUE
  ELSE includes(toLowerCase(join(ClubFields(club), <<>>)), q)

matchesQuery(club, q) ==
  IF q = <<>> THEN TRUE
  ELSE includes(toLowerCase(join(ClubFields(club), <<" ">>)), q)

ClubBag(club) ==
  {normalize(t) : t \in Range(ListProp(club, "interests")
                              \o ListProp(club, "vibes")
                              \o ListProp(club, "collab_needs"))}

\* a tag match that wants every selected tag
clubMatchesSelectedTags_All(club, selectedTagsArg) ==
  IF selectedTagsArg = <<>> \/ Len(selectedTagsArg[1]) = 0 THEN TRUE
  ELSE \A i \in 1..Len(selectedTagsArg[1]) :
         normalize(selectedTagsArg[1][i]) \in ClubBag(club)

\* selectedTags is <<>> (undefined) or <<list>>
clubMatchesSelectedTags(club, selectedTagsArg) ==
  IF selectedTagsArg = <<>> \/ Len(selectedTagsArg[1]) = 0 THEN TRUE
  ELSE \E i \in 1..Len(selectedTagsArg[1]) :
         normalize(selectedTagsArg[1][i]) \in ClubBag(club)

\* a vendor text without the price range
VendorFields_NoPrice(vendor) ==
  <<StrProp(vendor, "name"), StrProp(vendor, "description")>>
    \o ListProp(vendor, "services")
    \o ListProp(vendor, "vibes")
    \o ListProp(vendor, "tags")
    \o ListProp(vendor, "availability")

VendorFields(vendor) ==
  <<StrProp(vendor, "name"), StrProp(vendor, "description")>>
    \o ListProp(vendor, "services")
    \o ListProp(vendor, "vibes")
    \o ListProp(vendor, "tags")
    \o ListProp(vendor, "availability")
    \o <<StrProp(vendor, "price_range")>>

vendorMatches(vendor, q) ==
  IF q = <<>> THEN TRUE
  ELSE includes(toLowerCase(join(VendorFields(vendor), <<" ">>)), q)

RequestFields(req) ==
  <<StrProp(req, "club_name"), StrProp(req, "title"),
    StrProp(req, "description")>>
    \o ListProp(req, "needs")
    \o <<StrProp(req, "budget"), StrProp(req, "date"),
         StrProp(req, "time_window")>>

requestMatches(req, q) ==
  IF q = <<>> THEN TRUE
  ELSE includes(toLowerCase(join(RequestFields(req), <<" ">>)), q)

\* a clubs branch that keeps a club passing either filter
discoverItemsOf_Either(mode, clubs, vendors, requests, tags, q) ==
  IF mode = "clubs" THEN
    SelectSeq(clubs, LAMBDA c : clubMatchesSelectedTags(c, <<tags>>)
                                  \/ matchesQuery(c, q))
  ELSE IF mode = "vendors" THEN
    SelectSeq(vendors, LAMBDA v : vendorMatches(v, q))
  ELSE IF mode = "requests" THEN
    SelectSeq(requests, LAMBDA r : requestMatches(r, q))
  ELSE <<>>

\* a filter that loses the first record it keeps
discoverItemsOf_DropFirst(mode, clubs, vendors, requests, tags, q) ==
  LET kept ==
        IF mode = "clubs" THEN
          SelectSeq(SelectSeq(clubs,
                              LAMBDA c : clubMatchesSelectedTags(c, <<tags>>)),
                    LAMBDA c : matchesQuery(c, q))
        ELSE IF mode = "vendors" THEN
          SelectSeq(vendors, LAMBDA v : vendorMatches(v, q))
        ELSE IF mode = "requests" THEN
          SelectSeq(requests, LAMBDA r : requestMatches(r, q))
        ELSE <<>>
  IN IF kept = <<>> THEN kept ELSE Tail(kept)

discoverItemsOf(mode, clubs, vendors, requests, tags, q) ==
  IF mode = "clubs" THEN
    SelectSeq(SelectSeq(clubs,
                        LAMBDA c : clubMatchesSelectedTags(c, <<tags>>)),
              LAMBDA c : matchesQuery(c, q))
  ELSE IF mode = "vendors" THEN
    SelectSeq(vendors, LAMBDA v : vendorMatches(v, q))
  ELSE IF mode = "requests" THEN
    SelectSeq(requests, LAMBDA r : requestMatches(r, q))
  ELSE <<>>

(***************************************************************************)
(* The tag sampler.  rnd[i] is Math.floor(Math.random() * (i + 1)) of the   *)
(* loop's round i (0-based), any value of 0..i.                            *)
(***************************************************************************)
Draws(len) == [1..(len - 1) -> 0..(len - 1)]

ValidDraws(len) == {rnd \in Draws(len) : \A i \in 1..(len - 1) : rnd[i] <= i}

\* a swap that loses copy[i]
Swap_Overwrite(copy, i, j) ==
  [k \in 1..Len(copy) |-> IF k = i + 1 THEN copy[j + 1] ELSE copy[k]]

Swap(copy, i, j) ==
  [k \in 1..Len(copy) |->
     IF k = i + 1 THEN copy[j + 1]
     ELSE IF k = j + 1 THEN copy[i + 1]
     ELSE copy[k]]

RECURSIVE Shuffle(_, _, _)
Shuffle(copy, i, rnd) ==
  IF i > 0 THEN Shuffle(Swap(copy, i, rnd[i]), i - 1, rnd) ELSE copy

\* Array.prototype.slice(0, n)
slice0(arr, n) ==
  LET end == IF n < 0 THEN Max(Len(arr) + n, 0) ELSE Min(n, Len(arr))
  IN SubSeq(arr, 1, end)

pickRandomUnique(arr, n, rnd) == slice0(Shuffle(arr, Len(arr) - 1, rnd), n)

(***************************************************************************)
(* Data of the session.  The three JSON collections are inputs of the      *)
(* program; the records below are the ones this model runs it on.  One     *)
(* seed id of each kind lies in the range nextId draws from.               *)
(***************************************************************************)
ClubIdBase == 1000
RequestIdBase == 300

TagTechnology == <<"t", "e", "c", "h", "n", "o", "l", "o", "g", "y">>
TagWomen == <<"w", "o", "m", "e", "n">>

DiscoverTagList ==
  << TagTechnology,
     TagWomen,
     <<"s", "p", "o", "r", "t", "s">>,
     <<"s", "e", "r", "v", "i", "c", "e">>,
     <<"b", "u", "s", "i", "n", "e", "s", "s">>,
     <<"e", "n", "g", "i", "n", "e", "e", "r", "i", "n", "g">>,
     <<"c", "r", "e", "a", "t", "i", "v", "e">>,
     <<"c", "u", "l", "t", "u", "r", "e">>,
     <<"c", "a", "r", "e", "e", "r">>,
     <<"h", "e", "a", "l", "t", "h">>,
     <<"c", "o", "m", "p", "u", "t", "e", "r", " ", "s", "c", "i", "e", "n", "c", "e">>,
     <<"m", "a", "t", "h">>,
     <<"c", "y", "b", "e", "r", "s", "e", "c", "u", "r", "i", "t", "y">> >>

\* the session of the model keeps the first two tags of the list
DISCOVER_TAGS == SubSeq(DiscoverTagList, 1, Len(<<TagTechnology, TagWomen>>))

ThemeCount == 10

clubsData ==
  << [id |-> 1,
      name |-> <<"W", "i", "C", "S">>,
      description |-> <<"c", "o", "d", "e">>,
      interests |-> << <<" ", "W", "o", "m", "e", "n">>, TagTechnology >>,
      vibes |-> << <<"c", "h", "i", "l", "l">> >>,
      collab_needs |-> <<>>,
      contact |-> <<>>],
     [id |-> ClubIdBase,
      name |-> <<"C", "h", "e", "s", "s">>,
      description |-> <<"b", "o", "a", "r", "d">>,
      vibes |-> << TagWomen >>] >>

vendorsData ==
  << [id |-> 1,
      name |-> <<"C", "h", "a", "i">>,
      description |-> <<"t", "e", "a">>,
      services |-> << <<"c", "a", "t", "e", "r">> >>,
      vibes |-> <<>>,
      tags |-> << <<"h", "a", "l", "a", "l">> >>,
      availability |-> << <<"f", "r", "i">> >>,
      price_range |-> <<"$", "$">>,
      contact |-> <<>>],
     [id |-> 2,
      name |-> <<"D", "J">>,
      description |-> <<"m", "i", "x">>,
      price_range |-> <<"$">>] >>

requestsData ==
  << [id |-> 2,
      club_name |-> <<"W", "i", "C", "S">>,
      title |-> <<"t", "e", "a">>,
      description |-> <<"g", "a", "l", "a">>,
      needs |-> << <<"c", "h", "a", "i">> >>,
      budget |-> <<"$", "$">>,
      date |-> <<"m", "a", "r">>,
      time_window |-> <<"6", "p", "m">>,
      contact |-> <<>>],
     [id |-> RequestIdBase,
      club_name |-> <<"C", "h", "e", "s", "s">>,
      title |-> <<"D", "J">>,
      budget |-> <<"$">>] >>

(***************************************************************************)
(* What the user may type or pick.                                         *)
(***************************************************************************)
SearchInputs ==
  { <<>>, <<" ", "A", " ">>, <<"$", "$">>, <<"s", " ", "c">> }

DiscoverModes == {"clubs", "vendors", "requests"}

ClubFieldInputs ==
  [name |-> { <<>>, <<" ">>, <<" ", "A", "A", " ">> },
   description |-> { <<>> },
   interests |-> { <<>> },
   vibes |-> { <<>> },
   collabNeeds |-> { <<>> },
   contact |-> { <<>> }]

RequestFieldInputs ==
  [clubName |-> { <<>>, <<" ", "c">> },
   title |-> { <<>>, <<"T", " ">> },
   description |-> { <<>> },
   needs |-> { <<>> },
   budget |-> { <<"$", "$">>, <<" ", "$">> },
   date |-> { <<>> },
   timeWindow |-> { <<>> },
   contact |-> { <<>> }]

(***************************************************************************)
(* The store.  A raw text is a sequence of tokens: the brackets, the       *)
(* commas, and one token for each element of the array.  Its writable      *)
(* field tells whether setItem succeeds or throws (quota, storage off).    *)
(***************************************************************************)
TokOpen == [t |-> "["]
TokClose == [t |-> "]"]
TokComma == [t |-> ","]
TokValue(v) == [t |-> "value", v |-> v]

RECURSIVE JSONitems(_)
JSONitems(list) ==
  IF list = <<>> THEN <<>>
  ELSE IF Len(list) = 1 THEN <<TokValue(list[1])>>
  ELSE <<TokValue(list[1]), TokComma>> \o JSONitems(Tail(list))

JSONstringify(list) == <<TokOpen>> \o JSONitems(list) \o <<TokClose>>

\* JSON.parse of a raw text: <<list>>, or <<>> where it throws
JSONparse(raw) ==
  LET inner == SubSeq(raw, 2, Len(raw) - 1)
      wellFormed ==
        /\ Len(raw) >= 2
        /\ raw[1] = TokOpen
        /\ raw[Len(raw)] = TokClose
        /\ Len(inner) = 0 \/ Len(inner) % 2 = 1
        /\ \A i \in 1..Len(inner) :
             IF i % 2 = 1 THEN inner[i].t = "value" ELSE inner[i] = TokComma
  IN IF wellFormed
     THEN <<[k \in 1..((Len(inner) + 1) \div 2) |-> inner[2 * k - 1].v]>>
     ELSE <<>>

\* localStorage.getItem: <<>> is null, <<raw>> the text of the entry
getItem(store, key) == store[key]

\* a hook that starts from initialValue and never reads the store
initialState_NoRead(store, key, initialValue) == initialValue

\* the lazy initializer of useLocalStorageState: raw ? JSON.parse(raw) :
\* initialValue, and initialValue where that throws
initialState(store, key, initialValue) ==
  LET raw == getItem(store, key)
  IN IF raw = <<>> \/ raw[1] = <<>> THEN initialValue
     ELSE IF JSONparse(raw[1]) = <<>> THEN initialValue
     ELSE JSONparse(raw[1])[1]

\* the effect of useLocalStorageState after a render in which value changed:
\* a setItem that throws is ignored and leaves the entry as it was
setItem(store, key, value) ==
  IF store.writable
  THEN [store EXCEPT ![key] = <<JSONstringify(value)>>]
  ELSE store

(***************************************************************************)
(* What a render derives from the state.                                   *)
(***************************************************************************)
allClubs == clubsData \o userClubs
allVendors == vendorsData
allRequests == requestsData \o userRequests

q == normalize(search)

discoverItems ==
  discoverItemsOf(discoverMode, allClubs, allVendors, allRequests,
                  selectedTags, q)

Ids(list) == {list[i].id : i \in 1..Len(list)}

\* new Map(allClubs.map((c) => [c.id, c])).get(id): the last entry wins
clubById(id) ==
  LET hits == {i \in 1..Len(allClubs) : allClubs[i].id = id}
  IN IF hits = {} THEN <<>>
     ELSE <<allClubs[CHOOSE i \in hits : \A k \in hits : k <= i]>>

\* a pinned list taken from the merged clubs, in their order
heartedClubsOf_MergedOrder(ids) ==
  SelectSeq(allClubs, LAMBDA c : c.id \in Range(ids))

RECURSIVE heartedClubsOf(_)
heartedClubsOf(ids) ==
  IF ids = <<>> THEN <<>>
  ELSE clubById(Head(ids)) \o heartedClubsOf(Tail(ids))

heartedClubs == heartedClubsOf(heartedIds)

\* the ids of the club tiles on the page, each with a heart button
HeartButtons ==
  Ids(heartedClubs) \cup (IF discoverMode = "clubs" THEN Ids(discoverItems) ELSE {})

BlankClubForm ==
  [name |-> <<>>, description |-> <<>>, interests |-> <<>>, vibes |-> <<>>,
   collabNeeds |-> <<>>, contact |-> <<>>]

BlankRequestForm ==
  [clubName |-> <<>>, title |-> <<>>, description |-> <<>>, needs |-> <<>>,
   budget |-> <<"$", "$">>, date |-> <<>>, timeWindow |-> <<>>,
   contact |-> <<>>]

\* the setName("") ... setContact("") that end NewClubForm.handleSubmit
clearedClubForm ==
  [name |-> <<>>, description |-> <<>>, interests |-> <<>>, vibes |-> <<>>,
   collabNeeds |-> <<>>, contact |-> <<>>]

\* a reset that empties the budget
clearedRequestForm_EmptyBudget ==
  [clubName |-> <<>>, title |-> <<>>, description |-> <<>>, needs |-> <<>>,
   budget |-> <<>>, date |-> <<>>, timeWindow |-> <<>>, contact |-> <<>>]

\* the setClubName("") ... setContact("") that end NewRequestForm.handleSubmit
clearedRequestForm ==
  [clubName |-> <<>>, title |-> <<>>, description |-> <<>>, needs |-> <<>>,
   budget |-> <<"$", "$">>, date |-> <<>>, timeWindow |-> <<>>,
   contact |-> <<>>]

NoCall == [fn |-> "none"]

InitApp ==
  /\ heartedIds = <<>>
  /\ search = <<>>
  /\ discoverMode = "clubs"
  /\ userClubs = <<>>
  /\ userRequests = <<>>
  /\ isRequestOpen = FALSE
  /\ isRegisterOpen = FALSE
  /\ selectedTags = <<>>
  /\ \E rnd \in ValidDraws(Len(DISCOVER_TAGS)) :
       themeTags = pickRandomUnique(DISCOVER_TAGS,
                                    Min(ThemeCount, Len(DISCOVER_TAGS)), rnd)
  /\ clubForm = BlankClubForm
  /\ requestForm = BlankRequestForm
  /\ localStorage = [heartedClubIds |-> <<JSONstringify(<<>>)>>,
                     userClubs |-> <<JSONstringify(<<>>)>>,
                     userRequests |-> <<JSONstringify(<<>>)>>,
                     writable |-> TRUE]
  /\ lastHandler = "none"

Init ==
  /\ InitApp
  /\ call = NoCall
  /\ ret = <<>>

(***************************************************************************)
(* App: the handlers.  Each one runs to completion, the render and the     *)
(* useLocalStorageState effects that follow it included.                   *)
(***************************************************************************)
\* a toggleHeart that forgets to remove
toggleHeartUpdater_NoRemove(prev, id) == <<id>> \o prev

\* a toggleHeart that puts a new id at the end
toggleHeartUpdater_Append(prev, id) ==
  IF id \in Range(prev)
  THEN SelectSeq(prev, LAMBDA x : x # id)
  ELSE prev \o <<id>>

toggleHeartUpdater(prev, id) ==
  IF id \in Range(prev)
  THEN SelectSeq(prev, LAMBDA x : x # id)
  ELSE <<id>> \o prev

toggleHeart(id) ==
  /\ id \in HeartButtons
  /\ heartedIds' = toggleHeartUpdater(heartedIds, id)
  /\ localStorage' = setItem(localStorage, "heartedClubIds", heartedIds')
  /\ lastHandler' = "toggleHeart"
  /\ UNCHANGED <<search, discoverMode, userClubs, userRequests, isRequestOpen,
                 isRegisterOpen, selectedTags, themeTags, clubForm,
                 requestForm, call, ret>>

\* a toggleTag that compares the tags as written
toggleTagUpdater_Exact(prev, tag) ==
  IF \E i \in 1..Len(prev) : prev[i] = tag
  THEN SelectSeq(prev, LAMBDA t : t # tag)
  ELSE <<tag>> \o prev

toggleTagUpdater(prev, tag) ==
  IF \E i \in 1..Len(prev) : normalize(prev[i]) = normalize(tag)
  THEN SelectSeq(prev, LAMBDA t : normalize(t) # normalize(tag))
  ELSE <<tag>> \o prev

\* the chips are on the page in clubs mode only, one for each theme tag
toggleTag(tag) ==
  /\ discoverMode = "clubs"
  /\ tag \in Range(themeTags)
  /\ selectedTags' = toggleTagUpdater(selectedTags, tag)
  /\ lastHandler' = "other"
  /\ UNCHANGED <<heartedIds, search, discoverMode, userClubs, userRequests,
                 isRequestOpen, isRegisterOpen, themeTags, clubForm,
                 requestForm, localStorage, call, ret>>

\* the Clear button is on the page while a filter is set
clearFilters ==
  /\ search # <<>> \/ Len(selectedTags) # 0
  /\ selectedTags' = <<>>
  /\ search' = <<>>
  /\ lastHandler' = "clearFilters"
  /\ UNCHANGED <<heartedIds, discoverMode, userClubs, userRequests,
                 isRequestOpen, isRegisterOpen, themeTags, clubForm,
                 requestForm, localStorage, call, ret>>

\* onChange of the search box
setSearch(value) ==
  /\ search' = value
  /\ lastHandler' = "other"
  /\ UNCHANGED <<heartedIds, discoverMode, userClubs, userRequests,
                 isRequestOpen, isRegisterOpen, selectedTags, themeTags,
                 clubForm, requestForm, localStorage, call, ret>>

setDiscoverMode(m) ==
  /\ discoverMode' = m
  /\ lastHandler' = "other"
  /\ UNCHANGED <<heartedIds, search, userClubs, userRequests, isRequestOpen,
                 isRegisterOpen, selectedTags, themeTags, clubForm,
                 requestForm, localStorage, call, ret>>

\* "Register a Club": the modal mounts NewClubForm with its initial fields
openRegister ==
  /\ isRegisterOpen' = TRUE
  /\ clubForm' = IF isRegisterOpen THEN clubForm ELSE BlankClubForm
  /\ lastHandler' = "other"
  /\ UNCHANGED <<heartedIds, search, discoverMode, userClubs, userRequests,
                 isRequestOpen, selectedTags, themeTags, requestForm,
                 localStorage, call, ret>>

\* the overlay, the x button and Cancel: the form unmounts with the modal
closeRegister ==
  /\ isRegisterOpen
  /\ isRegisterOpen' = FALSE
  /\ clubForm' = BlankClubForm
  /\ lastHandler' = "other"
  /\ UNCHANGED <<heartedIds, search, discoverMode, userClubs, userRequests,
                 isRequestOpen, selectedTags, themeTags, requestForm,
                 localStorage, call, ret>>

\* "Post a Request" is on the page in requests mode only
openRequest ==
  /\ discoverMode = "requests"
  /\ isRequestOpen' = TRUE
  /\ requestForm' = IF isRequestOpen THEN requestForm ELSE BlankRequestForm
  /\ lastHandler' = "other"
  /\ UNCHANGED <<heartedIds, search, discoverMode, userClubs, userRequests,
                 isRegisterOpen, selectedTags, themeTags, clubForm,
                 localStorage, call, ret>>

closeRequest ==
  /\ isRequestOpen
  /\ isRequestOpen' = FALSE
  /\ requestForm' = BlankRequestForm
  /\ lastHandler' = "other"
  /\ UNCHANGED <<heartedIds, search, discoverMode, userClubs, userRequests,
                 isRegisterOpen, selectedTags, themeTags, clubForm,
                 localStorage, call, ret>>

(***************************************************************************)
(* NewClubForm and NewRequestForm.                                         *)
(***************************************************************************)
\* onChange of one field of the club form
setClubField(field, value) ==
  /\ isRegisterOpen
  /\ clubForm' = [clubForm EXCEPT ![field] = value]
  /\ lastHandler' = "other"
  /\ UNCHANGED <<heartedIds, search, discoverMode, userClubs, userRequests,
                 isRequestOpen, isRegisterOpen, selectedTags, themeTags,
                 requestForm, localStorage, call, ret>>

setRequestField(field, value) ==
  /\ isRequestOpen
  /\ requestForm' = [requestForm EXCEPT ![field] = value]
  /\ lastHandler' = "other"
  /\ UNCHANGED <<heartedIds, search, discoverMode, userClubs, userRequests,
                 isRequestOpen, isRegisterOpen, selectedTags, themeTags,
                 clubForm, localStorage, call, ret>>

\* while (existingIds.has(id)) id++
RECURSIVE Probe(_, _)
Probe(id, existingIds) ==
  IF id \in existingIds THEN Probe(id + 1, existingIds) ELSE id

\* a nextId that does not probe
nextId_NoProbe(existingIds, base, r) == r + base

\* r is Math.floor(Math.random() * 1000000)
nextId(existingIds, base, r) == Probe(r + base, existingIds)

\* s.split(",").map((s) => s.trim()).filter(Boolean)
commaList(s) ==
  LET pieces == split(s)
  IN SelectSeq([i \in 1..Len(pieces) |-> trim(pieces[i])],
               LAMBDA piece : piece # <<>>)

NoDescription ==
  <<"N", "o", " ", "d", "e", "s", "c", "r", "i", "p", "t", "i", "o", "n">>

orDefault(s, default) == IF s = <<>> THEN default ELSE s

newClubOf(form, id) ==
  [id |-> id,
   name |-> trim(form.name),
   description |-> orDefault(trim(form.description), NoDescription),
   interests |-> commaList(form.interests),
   vibes |-> commaList(form.vibes),
   collab_needs |-> commaList(form.collabNeeds),
   contact |-> trim(form.contact)]

newReqOf(form, id) ==
  [id |-> id,
   club_name |-> trim(form.clubName),
   title |-> trim(form.title),
   description |-> orDefault(trim(form.description), NoDescription),
   needs |-> commaList(form.needs),
   budget |-> trim(form.budget),
   date |-> trim(form.date),
   time_window |-> trim(form.timeWindow),
   contact |-> trim(form.contact)]

\* an addClub that appends at the end
addClub_Append(newClub) ==
  /\ userClubs' = userClubs \o <<newClub>>
  /\ isRegisterOpen' = FALSE
  /\ localStorage' = setItem(localStorage, "userClubs", userClubs')

addClub(newClub) ==
  /\ userClubs' = <<newClub>> \o userClubs
  /\ isRegisterOpen' = FALSE
  /\ localStorage' = setItem(localStorage, "userClubs", userClubs')

addRequest(newReq) ==
  /\ userRequests' = <<newReq>> \o userRequests
  /\ isRequestOpen' = FALSE
  /\ localStorage' = setItem(localStorage, "userRequests", userRequests')

\* a guard that forgets to trim
clubNameMissing_NoTrim(form) == form.name = <<>>

clubNameMissing(form) == trim(form.name) = <<>>

requestFieldMissing(form) ==
  trim(form.clubName) = <<>> \/ trim(form.title) = <<>>

submitClub ==
  /\ isRegisterOpen
  /\ lastHandler' = "NewClubForm.handleSubmit"
  /\ IF clubNameMissing(clubForm)
     THEN UNCHANGED <<heartedIds, search, discoverMode, userClubs,
                      userRequests, isRequestOpen, isRegisterOpen,
                      selectedTags, themeTags, clubForm, requestForm,
                      localStorage, call, ret>>
     ELSE /\ Len(userClubs) < MaxUserClubs
          /\ \E r \in 0..(RandRange - 1) :
               addClub(newClubOf(clubForm, nextId(Ids(allClubs), ClubIdBase, r)))
          /\ clubForm' = clearedClubForm
          /\ UNCHANGED <<heartedIds, search, discoverMode, userRequests,
                         isRequestOpen, selectedTags, themeTags, requestForm,
                         call, ret>>

submitRequest ==
  /\ isRequestOpen
  /\ lastHandler' = "NewRequestForm.handleSubmit"
  /\ IF requestFieldMissing(requestForm)
     THEN UNCHANGED <<heartedIds, search, discoverMode, userClubs,
                      userRequests, isRequestOpen, isRegisterOpen,
                      selectedTags, themeTags, clubForm, requestForm,
                      localStorage, call, ret>>
     ELSE /\ Len(userRequests) < MaxUserRequests
          /\ \E r \in 0..(RandRange - 1) :
               addRequest(newReqOf(requestForm,
                                   nextId(Ids(allRequests), RequestIdBase, r)))
          /\ requestForm' = clearedRequestForm
          /\ UNCHANGED <<heartedIds, search, discoverMode, userClubs,
                         isRegisterOpen, selectedTags, themeTags, clubForm,
                         call, ret>>

(***************************************************************************)
(* The page is loaded again, and what happens to the store outside the     *)
(* handlers.                                                               *)
(***************************************************************************)
\* App mounts on the store it finds: every useState starts over, the three
\* lists from the store, and the effects of the first render write the three
\* entries
load(found) ==
  /\ heartedIds' = initialState(found, "heartedClubIds", <<>>)
  /\ userClubs' = initialState(found, "userClubs", <<>>)
  /\ userRequests' = initialState(found, "userRequests", <<>>)
  /\ search' = <<>>
  /\ discoverMode' = "clubs"
  /\ isRequestOpen' = FALSE
  /\ isRegisterOpen' = FALSE
  /\ selectedTags' = <<>>
  /\ \E rnd \in ValidDraws(Len(DISCOVER_TAGS)) :
       themeTags' = pickRandomUnique(DISCOVER_TAGS,
                                     Min(ThemeCount, Len(DISCOVER_TAGS)), rnd)
  /\ clubForm' = BlankClubForm
  /\ requestForm' = BlankRequestForm
  /\ localStorage' =
       setItem(setItem(setItem(found, "heartedClubIds", heartedIds'),
                       "userClubs", userClubs'),
               "userRequests", userRequests')
  /\ UNCHANGED <<call, ret>>

\* the page is refreshed
reload ==
  /\ load(localStorage)
  /\ lastHandler' = "reload"

StorageKeys == {"heartedClubIds", "userClubs", "userRequests"}

\* the empty text, and texts that JSON.parse rejects
DamagedTexts ==
  { <<>>, <<TokOpen>>, <<TokOpen, TokValue(1), TokComma, TokClose>> }

\* what a later visit may find under a key: no entry (site data cleared), or
\* a text that the application did not write
LostEntries == { <<>> } \cup { <<raw>> : raw \in DamagedTexts }

\* the page is opened again after an entry was lost or damaged, the store
\* taking writes
revisit(key, entry) ==
  /\ localStorage.writable
  /\ load([localStorage EXCEPT ![key] = entry])
  /\ lastHandler' = "revisit"

Revisit ==
  \E key \in StorageKeys : \E entry \in LostEntries : revisit(key, entry)

\* the store starts or stops taking writes (quota reached, storage freed)
storageFault ==
  /\ localStorage' = [localStorage EXCEPT !.writable = ~localStorage.writable]
  /\ UNCHANGED <<heartedIds, search, discoverMode, userClubs, userRequests,
                 isRequestOpen, isRegisterOpen, selectedTags, themeTags,
                 clubForm, requestForm, lastHandler, call, ret>>

ToggleHeart == \E id \in Ids(allClubs) : toggleHeart(id)
ToggleTag == \E tag \in Range(DISCOVER_TAGS) : toggleTag(tag)
SetSearch == \E value \in SearchInputs : setSearch(value)
SetDiscoverMode == \E m \in DiscoverModes : setDiscoverMode(m)
SetClubField ==
  \E field \in DOMAIN ClubFieldInputs :
    \E value \in ClubFieldInputs[field] : setClubField(field, value)
SetRequestField ==
  \E field \in DOMAIN RequestFieldInputs :
    \E value \in RequestFieldInputs[field] : setRequestField(field, value)

Next ==
  \/ ToggleHeart
  \/ ToggleTag
  \/ clearFilters
  \/ SetSearch
  \/ SetDiscoverMode
  \/ openRegister
  \/ closeRegister
  \/ openRequest
  \/ closeRequest
  \/ SetClubField
  \/ SetRequestField
  \/ submitClub
  \/ submitRequest
  \/ reload
  \/ Revisit
  \/ storageFault

Spec == Init /\ [][Next]_vars

\* registering clubs and posting requests
NextForms ==
  \/ SetDiscoverMode
  \/ openRegister
  \/ closeRegister
  \/ openRequest
  \/ closeRequest
  \/ SetClubField
  \/ SetRequestField
  \/ submitClub
  \/ submitRequest

SpecForms == Init /\ [][NextForms]_vars

\* registering clubs and browsing the directory
NextDiscover ==
  \/ ToggleTag
  \/ clearFilters
  \/ SetSearch
  \/ SetDiscoverMode
  \/ openRegister
  \/ closeRegister
  \/ SetClubField
  \/ submitClub

SpecDiscover == Init /\ [][NextDiscover]_vars

\* registering clubs and pinning them
NextHearts ==
  \/ ToggleHeart
  \/ openRegister
  \/ closeRegister
  \/ SetClubField
  \/ submitClub

SpecHearts == Init /\ [][NextHearts]_vars

\* no modal lies over the page
NoModal == ~isRegisterOpen /\ ~isRequestOpen

\* a session with the store.  The user pins the first seed club, registers
\* a club, posts a request, searches and picks a tag, using the page only
\* while no modal lies over it; the page is loaded again; the store stops
\* and starts taking writes.
PinFirst == NoModal /\ toggleHeart(clubsData[1].id)
Browse == NoModal /\ SetDiscoverMode
TypeSearch == NoModal /\ setSearch(<<"A">>)
PickTag == NoModal /\ toggleTag(TagWomen)
OpenRegister == NoModal /\ openRegister
TypeClubName == setClubField("name", <<"A">>)
StoreClub == Len(userClubs) < MaxStored /\ submitClub
OpenRequest == NoModal /\ openRequest
TypeRequestClub == setRequestField("clubName", <<"c">>)
TypeRequestTitle == setRequestField("title", <<"T">>)
StoreRequest == Len(userRequests) < MaxStored /\ submitRequest
Reload == NoModal /\ reload
RevisitPage == NoModal /\ Revisit

NextPersist ==
  \/ PinFirst
  \/ Browse
  \/ TypeSearch
  \/ PickTag
  \/ OpenRegister
  \/ TypeClubName
  \/ StoreClub
  \/ OpenRequest
  \/ TypeRequestClub
  \/ TypeRequestTitle
  \/ StoreRequest
  \/ Reload
  \/ RevisitPage
  \/ storageFault

SpecPersist == Init /\ [][NextPersist]_vars

\* pinning any club on the page
PinAny == NoModal /\ ToggleHeart

\* pinning and registering, and loading the page again after an entry of the
\* store was lost
NextPinned ==
  \/ PinAny
  \/ OpenRegister
  \/ TypeClubName
  \/ StoreClub
  \/ Reload
  \/ RevisitPage

SpecPinned == Init /\ [][NextPinned]_vars

\* browsing with tags, search and modes, and pinning
NextTags ==
  \/ ToggleTag
  \/ clearFilters
  \/ SetSearch
  \/ SetDiscoverMode
  \/ ToggleHeart

SpecTags == Init /\ [][NextTags]_vars

(***************************************************************************)
(* Direct calls of the pure functions, on inputs drawn from bounded sets.  *)
(***************************************************************************)
\* the object with the properties that opt gives a value (<<v>>), and no other
MkObj(opt) == [f \in {g \in DOMAIN opt : opt[g] # <<>>} |-> opt[f][1]]

ClubInputs ==
  { MkObj([name |-> n, description |-> d, interests |-> i, vibes |-> v,
           collab_needs |-> c]) :
      n \in { <<>>, << <<"a", "B">> >> },
      d \in { <<>>, << <<"c">> >> },
      i \in { <<>>, << <<>> >>, << << <<"a">> >> >>, << << <<" ", "B">> >> >> },
      v \in { <<>>, << << <<"A", " ", "b">> >> >> },
      c \in { <<>>, << << <<"c", " ">> >> >> } }

\* normalized queries
QueryInputs ==
  { <<>>, <<"b">>, <<"b", "c">>, <<"b", " ", "c">>, <<"b", " ", "a">>,
    <<"c", " ", "a">>, <<"x">> }

\* undefined, or a list of tags
TagArgInputs ==
  { <<>>,
    << <<>> >>,
    << << <<"A">> >> >>,
    << << <<"b", " ">> >> >>,
    << << <<"x">>, <<" ", "C">> >> >>,
    << << <<"a", " ", "b">> >> >>,
    << << <<"a", "b">>, <<"x">> >> >> }

VendorInputs ==
  { MkObj([id |-> <<1>>, name |-> n, description |-> <<>>, services |-> sv,
           tags |-> <<>>, price_range |-> p]) :
      n \in { <<>>, << <<"a", "B">> >> },
      sv \in { <<>>, << << <<"c">>, <<"a">> >> >> },
      p \in { <<>>, << <<"$", "$">> >>, << <<"c", " ", "x">> >> } }

RequestInputs ==
  { MkObj([id |-> <<1>>, club_name |-> cn, title |-> t, needs |-> nd,
           budget |-> b, date |-> dt, time_window |-> <<>>]) :
      cn \in { <<>>, << <<"x">> >> },
      t \in { << <<"a", "B">> >> },
      nd \in { <<>>, << << <<"c">>, <<"a">> >> >> },
      b \in { <<>>, << <<"$", "$">> >> },
      dt \in { <<>>, << <<"m", "a", "r">> >> } }

ListQueryInputs ==
  { <<>>, <<"b", " ", "c">>, <<"$", "$">>, <<"x">>, <<"m", "a", "r">>,
    <<"a", "b">> }

ListTagInputs == { <<>>, << <<"c">> >>, << <<"z">> >> }

\* the lists of one or two elements of S
ShortLists(S) == {<<x>> : x \in S} \cup {<<x, y>> : x \in S, y \in S}

FilterCalls ==
  {[fn |-> "matchesQuery", club |-> c, q |-> qq] :
     c \in ClubInputs, qq \in QueryInputs}
  \cup
  {[fn |-> "clubMatchesSelectedTags", club |-> c, selectedTags |-> tg] :
     c \in ClubInputs, tg \in TagArgInputs}
  \cup
  {[fn |-> "discoverItems", mode |-> "vendors", clubs |-> <<>>,
    vendors |-> l, requests |-> <<>>, selectedTags |-> tg, q |-> qq] :
     l \in ShortLists(VendorInputs), tg \in ListTagInputs,
     qq \in ListQueryInputs}
  \cup
  {[fn |-> "discoverItems", mode |-> "requests", clubs |-> <<>>,
    vendors |-> <<>>, requests |-> l, selectedTags |-> tg, q |-> qq] :
     l \in ShortLists(RequestInputs), tg \in ListTagInputs,
     qq \in ListQueryInputs}

SamplerCalls ==
  {[fn |-> "pickRandomUnique", arr |-> SubSeq(DiscoverTagList, 1, len),
    n |-> n] :
     len \in 0..MaxArr, n \in 0..(MaxArr + 1)}

callMatchesQuery ==
  /\ call.fn = "matchesQuery"
  /\ ret = <<>>
  /\ ret' = <<matchesQuery(call.club, call.q)>>
  /\ UNCHANGED <<appVars, call>>

callClubMatchesSelectedTags ==
  /\ call.fn = "clubMatchesSelectedTags"
  /\ ret = <<>>
  /\ ret' = <<clubMatchesSelectedTags(call.club, call.selectedTags)>>
  /\ UNCHANGED <<appVars, call>>

callDiscoverItems ==
  /\ call.fn = "discoverItems"
  /\ ret = <<>>
  /\ ret' = <<discoverItemsOf(call.mode, call.clubs, call.vendors,
                              call.requests, call.selectedTags, call.q)>>
  /\ UNCHANGED <<appVars, call>>

callPickRandomUnique ==
  /\ call.fn = "pickRandomUnique"
  /\ ret = <<>>
  /\ \E rnd \in ValidDraws(Len(call.arr)) :
       ret' = <<pickRandomUnique(call.arr, call.n, rnd)>>
  /\ UNCHANGED <<appVars, call>>

InitFilter ==
  /\ InitApp
  /\ call \in FilterCalls
  /\ ret = <<>>

NextFilter ==
  \/ callMatchesQuery
  \/ callClubMatchesSelectedTags
  \/ callDiscoverItems

SpecFilter == InitFilter /\ [][NextFilter]_vars

\* clubs without an interests list
RefilterClubs == {c \in ClubInputs : "interests" \notin DOMAIN c}

RefilterCalls ==
  {[fn |-> "discoverItems", mode |-> "clubs", clubs |-> l,
    vendors |-> <<>>, requests |-> <<>>, selectedTags |-> tg, q |-> qq] :
     l \in ShortLists(RefilterClubs), tg \in ListTagInputs,
     qq \in ListQueryInputs}
  \cup
  {c \in FilterCalls : c.fn = "discoverItems"}

\* the filter applied to the list it returned, with the same tags and query
refilter ==
  /\ call.fn = "discoverItems"
  /\ Len(ret) = 1
  /\ ret' = ret \o
       <<discoverItemsOf(call.mode,
                         IF call.mode = "clubs" THEN ret[1] ELSE call.clubs,
                         IF call.mode = "vendors" THEN ret[1] ELSE call.vendors,
                         IF call.mode = "requests" THEN ret[1]
                         ELSE call.requests,
                         call.selectedTags, call.q)>>
  /\ UNCHANGED <<appVars, call>>

InitRefilter ==
  /\ InitApp
  /\ call \in RefilterCalls
  /\ ret = <<>>

NextRefilter ==
  \/ callDiscoverItems
  \/ refilter

SpecRefilter == InitRefilter /\ [][NextRefilter]_vars

InitSampler ==
  /\ InitApp
  /\ call \in SamplerCalls
  /\ ret = <<>>

\* a call of the sampler, and the session going on around its own sample
NextSampler ==
  \/ callPickRandomUnique
  \/ ToggleTag
  \/ clearFilters
  \/ SetSearch
  \/ SetDiscoverMode

SpecSampler == InitSampler /\ [][NextSampler]_vars

(***************************************************************************)
(* Properties.                                                             *)
(***************************************************************************)
DistinctIds(list) ==
  \A i, j \in 1..Len(list) : i # j => list[i].id # list[j].id

\* the existing-id sets around the range nextId draws from
IdSetsAt(base) == SUBSET (base..(base + RandRange))

\* C1: nextId never returns an id of the existing-id set it is given, the
\* empty set included, and so the ids of the merged clubs are pairwise
\* distinct, and those of the merged requests are.
C1_FreshIds ==
  /\ \A base \in {ClubIdBase, RequestIdBase} :
       \A existing \in IdSetsAt(base) :
         \A r \in 0..(RandRange - 1) : nextId(existing, base, r) \notin existing
  /\ \A r \in 0..(RandRange - 1) :
       /\ nextId(Ids(allClubs), ClubIdBase, r) \notin Ids(allClubs)
       /\ nextId(Ids(allRequests), RequestIdBase, r) \notin Ids(allRequests)
  /\ DistinctIds(allClubs)
  /\ DistinctIds(allRequests)

\* two clubs and two requests were added, and an id was probed upward
C1_Witness ==
  /\ Len(userClubs) = 2
  /\ Len(userRequests) = 2
  /\ userClubs[1].id > ClubIdBase + RandRange - 1
  /\ userRequests[1].id > RequestIdBase + RandRange - 1

\* list without its element at position k
RemoveAt(list, k) == SubSeq(list, 1, k - 1) \o SubSeq(list, k + 1, Len(list))

\* after is before, or before with one record put right after the seeds
GrowsBehindSeeds(before, after, seeds) ==
  /\ SubSeq(after, 1, Len(seeds)) = seeds
  /\ \/ after = before
     \/ /\ Len(after) = Len(before) + 1
        /\ RemoveAt(after, Len(seeds) + 1) = before

\* C2: the merged clubs are the seed clubs in seed order and then the
\* user-added clubs, newest first, and a step changes the list only by putting
\* one new record right after the last seed record; likewise the requests.
C2_MergeOrder ==
  [][/\ GrowsBehindSeeds(allClubs, allClubs', clubsData)
     /\ GrowsBehindSeeds(allRequests, allRequests', requestsData)
     /\ allClubs' # allClubs => lastHandler' = "NewClubForm.handleSubmit"
     /\ allRequests' # allRequests =>
          lastHandler' = "NewRequestForm.handleSubmit"]_vars

\* a second club and a second request stand in front of the first ones
C2_Witness ==
  /\ Len(allClubs) = Len(clubsData) + 2
  /\ Len(allRequests) = Len(requestsData) + 2
  /\ allClubs[Len(clubsData) + 1] = userClubs[1]
  /\ allRequests[Len(requestsData) + 2] = userRequests[2]

\* C3: toggleHeart(id) toggles the presence of id in heartedIds, leaves the
\* membership of every other id alone, and a second toggleHeart(id) gives
\* back the original set of ids.
C3_ToggleHeart ==
  [][\A id \in Ids(allClubs) :
       toggleHeart(id) =>
         /\ (id \in Range(heartedIds)) # (id \in Range(heartedIds'))
         /\ \A x \in (Range(heartedIds) \cup Range(heartedIds')) \ {id} :
              (x \in Range(heartedIds)) = (x \in Range(heartedIds'))
         /\ Range(toggleHeartUpdater(heartedIds', id)) = Range(heartedIds)]_vars

\* a club was un-hearted while another stayed hearted
C3_Witness ==
  /\ lastHandler = "toggleHeart"
  /\ Len(heartedIds) = 1
  /\ \E i \in 1..Len(userClubs) : userClubs[i].id = heartedIds[1]
  /\ localStorage.heartedClubIds = <<JSONstringify(heartedIds)>>

TagFields == {"interests", "vibes", "collab_needs"}

\* C4: clubMatchesSelectedTags is true when the selected tags are empty or
\* absent; otherwise it is true exactly when some selected tag, trimmed and
\* lower-cased, equals some trimmed and lower-cased entry of the club's
\* interests, vibes or collab_needs, a missing list counting as empty.
C4_TagMatch ==
  (call.fn = "clubMatchesSelectedTags" /\ ret # <<>>) =>
    ret[1] =
      IF call.selectedTags = <<>> THEN TRUE
      ELSE IF call.selectedTags[1] = <<>> THEN TRUE
      ELSE \E i \in 1..Len(call.selectedTags[1]) :
             \E f \in TagFields \cap DOMAIN call.club :
               \E j \in 1..Len(call.club[f]) :
                 toLowerCase(trim(call.selectedTags[1][i]))
                   = toLowerCase(trim(call.club[f][j]))

\* two tags are selected, the club carries one of them only, written in
\* another case and with a space, and the club matched
C4_Witness ==
  /\ call.fn = "clubMatchesSelectedTags"
  /\ ret = <<TRUE>>
  /\ call.selectedTags = << << <<"x">>, <<" ", "C">> >> >>
  /\ "interests" \notin DOMAIN call.club
  /\ call.club.collab_needs = << <<"c", " ">> >>

\* the entries of the club's text: name and description (empty where
\* missing), then the strings of the three lists
TextEntries(club) ==
  << IF "name" \in DOMAIN club THEN club.name ELSE <<>>,
     IF "description" \in DOMAIN club THEN club.description ELSE <<>> >>
  \o (IF "interests" \in DOMAIN club THEN club.interests ELSE <<>>)
  \o (IF "vibes" \in DOMAIN club THEN club.vibes ELSE <<>>)
  \o (IF "collab_needs" \in DOMAIN club THEN club.collab_needs ELSE <<>>)

RECURSIVE Concat(_)
Concat(list) == IF list = <<>> THEN <<>> ELSE Head(list) \o Concat(Tail(list))

\* the entries with one space between consecutive ones
RECURSIVE Spaced(_)
Spaced(list) ==
  IF Len(list) <= 1 THEN Concat(list)
  ELSE Head(list) \o <<" ">> \o Spaced(Tail(list))

\* needle occurs in hay at some position
Occurs(needle, hay) ==
  \E start \in 1..(Len(hay) + 1) :
    /\ start + Len(needle) - 1 <= Len(hay)
    /\ \A k \in 1..Len(needle) : hay[start + k - 1] = needle[k]

\* C5 as stated: with a non-empty query matchesQuery is true exactly when
\* the query occurs in the lower-cased concatenation of the name, the
\* description and the strings of the three lists.
C5_Original ==
  (call.fn = "matchesQuery" /\ ret # <<>>) =>
    ret[1] = (call.q = <<>>
              \/ Occurs(call.q, toLowerCase(Concat(TextEntries(call.club)))))

\* C5: matchesQuery is true for every club when the query is empty; with a
\* non-empty query it is true exactly when the query occurs in the
\* lower-cased text made of the name, the description and the strings of
\* interests, vibes and collab_needs with one space between consecutive
\* entries, a missing name or description being an empty entry and a missing
\* list no entry.
C5_TextMatch ==
  (call.fn = "matchesQuery" /\ ret # <<>>) =>
    ret[1] = (call.q = <<>>
              \/ Occurs(call.q, toLowerCase(Spaced(TextEntries(call.club)))))

\* the query runs over the space between name and description and is in no
\* single entry, and the club matched
C5_Witness ==
  /\ call.fn = "matchesQuery"
  /\ ret = <<TRUE>>
  /\ call.q = <<"b", " ", "c">>
  /\ \A i \in 1..Len(TextEntries(call.club)) :
       ~Occurs(call.q, toLowerCase(TextEntries(call.club)[i]))

\* the k-th smallest element of a set of positions
KthOf(positions, k) ==
  CHOOSE i \in positions : Cardinality({j \in positions : j <= i}) = k

\* result is the elements of list at the given positions, in list order
IsSelection(result, list, positions) ==
  /\ Len(result) = Cardinality(positions)
  /\ \A k \in 1..Len(result) : result[k] = list[KthOf(positions, k)]

\* C6: in clubs mode discoverItems holds a club of the merged collection
\* exactly when the club passes both the tag match against selectedTags and
\* the text match against q, in the order of the merged collection and as
\* often as it occurs there.
C6_ClubsDiscover ==
  discoverMode = "clubs" =>
    IsSelection(discoverItems, allClubs,
                {i \in 1..Len(allClubs) :
                   /\ clubMatchesSelectedTags(allClubs[i], <<selectedTags>>)
                   /\ matchesQuery(allClubs[i], q)})

\* tags and a query are set; one club passes both, one only the tag match,
\* and a user-added club only the text match
C6_Witness ==
  /\ discoverMode = "clubs"
  /\ selectedTags # <<>>
  /\ q # <<>>
  /\ Len(discoverItems) = 1
  /\ \E i \in 1..Len(clubsData) :
       /\ clubMatchesSelectedTags(allClubs[i], <<selectedTags>>)
       /\ ~matchesQuery(allClubs[i], q)
  /\ \E i \in (Len(clubsData) + 1)..Len(allClubs) :
       /\ ~clubMatchesSelectedTags(allClubs[i], <<selectedTags>>)
       /\ matchesQuery(allClubs[i], q)

\* one entry for a string field (empty where missing), the strings of a
\* list field (none where missing)
StrEntry(record, f) == IF f \in DOMAIN record THEN <<record[f]>> ELSE << <<>> >>
ListEntries(record, f) == IF f \in DOMAIN record THEN record[f] ELSE <<>>

\* name, description and the tag-like lists of a vendor
VendorTagText(v) ==
  toLowerCase(Spaced(StrEntry(v, "name") \o StrEntry(v, "description")
                       \o ListEntries(v, "services") \o ListEntries(v, "vibes")
                       \o ListEntries(v, "tags")
                       \o ListEntries(v, "availability")))

\* club name, title, description and the needs of a request
RequestTagText(r) ==
  toLowerCase(Spaced(StrEntry(r, "club_name") \o StrEntry(r, "title")
                       \o StrEntry(r, "description")
                       \o ListEntries(r, "needs")))

\* the same with the price range at the end
VendorFullText(v) ==
  toLowerCase(Spaced(StrEntry(v, "name") \o StrEntry(v, "description")
                       \o ListEntries(v, "services") \o ListEntries(v, "vibes")
                       \o ListEntries(v, "tags")
                       \o ListEntries(v, "availability")
                       \o StrEntry(v, "price_range")))

\* the same with budget, date and time window at the end
RequestFullText(r) ==
  toLowerCase(Spaced(StrEntry(r, "club_name") \o StrEntry(r, "title")
                       \o StrEntry(r, "description")
                       \o ListEntries(r, "needs")
                       \o StrEntry(r, "budget") \o StrEntry(r, "date")
                       \o StrEntry(r, "time_window")))

CalledList == IF call.mode = "vendors" THEN call.vendors ELSE call.requests

\* C7 as stated: in vendors and requests mode, with a non-empty query, a
\* record is in the result exactly when the query occurs in the text of its
\* name or title, its description and its tag-like lists; a record with the
\* query in price_range, budget, date or time_window only is left out.
C7_Original ==
  (call.fn = "discoverItems" /\ ret # <<>> /\ call.q # <<>>) =>
    IsSelection(ret[1], CalledList,
                {i \in 1..Len(CalledList) :
                   IF call.mode = "vendors"
                   THEN Occurs(call.q, VendorTagText(CalledList[i]))
                   ELSE Occurs(call.q, RequestTagText(CalledList[i]))})

\* C7: in vendors and requests mode the result does not depend on the
\* selected tags; it holds every record when the query is empty and
\* otherwise exactly the records whose text has the query, the text being,
\* with one space between entries, name, description, services, vibes, tags,
\* availability and price_range of a vendor, and club_name, title,
\* description, needs, budget, date and time_window of a request.
C7_ListMatch ==
  (call.fn = "discoverItems" /\ ret # <<>>) =>
    /\ IsSelection(ret[1], CalledList,
                   {i \in 1..Len(CalledList) :
                      \/ call.q = <<>>
                      \/ IF call.mode = "vendors"
                         THEN Occurs(call.q, VendorFullText(CalledList[i]))
                         ELSE Occurs(call.q, RequestFullText(CalledList[i]))})
    /\ \A tags \in ListTagInputs :
         discoverItemsOf(call.mode, call.clubs, call.vendors, call.requests,
                         tags, call.q) = ret[1]

\* a vendor with the query in its price range only is in the result, next
\* to one that is left out, while a tag is selected
C7_Witness ==
  /\ call.fn = "discoverItems"
  /\ call.mode = "vendors"
  /\ call.selectedTags # <<>>
  /\ call.q = <<"$", "$">>
  /\ Len(call.vendors) = 2
  /\ ret # <<>>
  /\ Len(ret[1]) = 1
  /\ ~Occurs(call.q, VendorTagText(ret[1][1]))

ClubSubmitted == lastHandler' = "NewClubForm.handleSubmit"
RequestSubmitted == lastHandler' = "NewRequestForm.handleSubmit"

\* C8: submitting the club form with a name that is empty after trimming, or
\* the request form with a club name or a title that is empty after
\* trimming, changes nothing: no record is added, nothing is stored, the
\* modal stays open and the fields keep their content.
C8_BlankSubmit ==
  [][(\/ ClubSubmitted /\ trim(clubForm.name) = <<>>
      \/ RequestSubmitted /\ trim(requestForm.clubName) = <<>>
      \/ RequestSubmitted /\ trim(requestForm.title) = <<>>)
     => /\ userClubs' = userClubs
        /\ userRequests' = userRequests
        /\ localStorage' = localStorage
        /\ isRegisterOpen' = isRegisterOpen
        /\ isRequestOpen' = isRequestOpen
        /\ ClubSubmitted => isRegisterOpen'
        /\ RequestSubmitted => isRequestOpen'
        /\ clubForm' = clubForm
        /\ requestForm' = requestForm
        /\ UNCHANGED <<heartedIds, search, discoverMode, selectedTags,
                       themeTags>>]_vars

\* the club form was submitted with a name of one space: the modal is open,
\* the space is still in the field and no club was added
C8_Witness ==
  /\ lastHandler = "NewClubForm.handleSubmit"
  /\ isRegisterOpen
  /\ clubForm.name = <<" ">>
  /\ userClubs = <<>>
  /\ localStorage.userClubs = <<JSONstringify(<<>>)>>

\* C9: a submission with the required fields filled adds exactly one record
\* to its own user-added list, closes its own modal and sets every field of
\* its form back to blank (the budget to "$$"), and leaves the other list,
\* the other form, hearted ids, selected tags, search text and discover mode
\* alone.
C9_Submit ==
  [][/\ (ClubSubmitted /\ trim(clubForm.name) # <<>>) =>
          /\ Len(userClubs') = Len(userClubs) + 1
          /\ \E k \in 1..Len(userClubs') : RemoveAt(userClubs', k) = userClubs
          /\ ~isRegisterOpen'
          /\ \A f \in DOMAIN clubForm' : clubForm'[f] = <<>>
          /\ UNCHANGED <<userRequests, isRequestOpen, requestForm, heartedIds,
                         selectedTags, search, discoverMode>>
     /\ (/\ RequestSubmitted
         /\ trim(requestForm.clubName) # <<>>
         /\ trim(requestForm.title) # <<>>) =>
          /\ Len(userRequests') = Len(userRequests) + 1
          /\ \E k \in 1..Len(userRequests') :
               RemoveAt(userRequests', k) = userRequests
          /\ ~isRequestOpen'
          /\ requestForm'.budget = <<"$", "$">>
          /\ \A f \in DOMAIN requestForm' \ {"budget"} : requestForm'[f] = <<>>
          /\ UNCHANGED <<userClubs, isRegisterOpen, clubForm, heartedIds,
                         selectedTags, search, discoverMode>>]_vars

\* a request typed with another budget was posted: it is stored, the modal
\* is closed and the budget field is back at "$$"
C9_Witness ==
  /\ lastHandler = "NewRequestForm.handleSubmit"
  /\ ~isRequestOpen
  /\ Len(userRequests) = 1
  /\ userRequests[1].budget = <<"$">>
  /\ userRequests[1].club_name = <<"c">>
  /\ requestForm.budget = <<"$", "$">>
  /\ Len(userClubs) = 1
  /\ userClubs[1].name = <<"A", "A">>

Distinct(list) == \A i, j \in 1..Len(list) : i # j => list[i] # list[j]

IsSample(sample, master, k) ==
  /\ Len(sample) = (IF k <= Len(master) THEN k ELSE Len(master))
  /\ Distinct(sample)
  /\ \A i \in 1..Len(sample) : \E j \in 1..Len(master) : sample[i] = master[j]

\* C10: for a master list of distinct tags and a count k, pickRandomUnique
\* returns min(k, N) elements, all distinct and all of the master list,
\* whatever the draws; themeTags is such a sample of DISCOVER_TAGS and no step
\* changes it.
C10_Sampler ==
  /\ [](/\ (call.fn = "pickRandomUnique" /\ ret # <<>>) =>
              IsSample(ret[1], call.arr, call.n)
        /\ IsSample(themeTags, DISCOVER_TAGS, ThemeCount))
  /\ [][themeTags' = themeTags]_vars

\* a call gave fewer tags than the master list has, not its head, and the
\* session went on around a shuffled sample of its own
C10_Witness ==
  /\ call.fn = "pickRandomUnique"
  /\ ret # <<>>
  /\ call.n = 2
  /\ Len(call.arr) = 3
  /\ ret[1] # SubSeq(call.arr, 1, 2)
  /\ themeTags # DISCOVER_TAGS
  /\ selectedTags # <<>>
  /\ search # <<>>

\* the lists over S a round trip through the store is tried on
ListsOver(S) == UNION {[1..n -> S] : n \in 0..(MaxStored + 1)}

RoundTrip(list) == JSONparse(JSONstringify(list)) = <<list>>

\* the list is what the entry held: its text, or nothing where the entry
\* was absent, empty or no JSON
Restored(list, entry) ==
  \/ entry = <<JSONstringify(list)>>
  \/ list = <<>> /\ entry \in LostEntries

\* the mount of App, as a refresh or as a later visit
Loaded ==
  /\ lastHandler' \in {"reload", "revisit"}
  /\ localStorage'.writable = localStorage.writable

\* C11 as stated: after every transition each of the three entries is the
\* text of its in-memory list.
C11_Original ==
  /\ localStorage.heartedClubIds = <<JSONstringify(heartedIds)>>
  /\ localStorage.userClubs = <<JSONstringify(userClubs)>>
  /\ localStorage.userRequests = <<JSONstringify(userRequests)>>

\* C11: a handler that changes one of the three lists writes its entry, and
\* the entry then is the text of the list, unless the store refuses the
\* write, which is ignored and leaves the entry as it was; no other entry
\* changes.  A load reads each list back from its entry as the entry stands
\* (so a list whose last write was refused comes back as of its last
\* accepted write), an absent, empty or unparseable entry as the empty list,
\* starts with no selected tags and no search text, and writes the three
\* entries again.  Parsing the text of a list gives the list.
C11_Persist ==
  /\ [](/\ \A list \in ListsOver({1, ClubIdBase}) : RoundTrip(list)
        /\ \A list \in ListsOver(Range(clubsData)) : RoundTrip(list))
  /\ [][/\ ~Loaded =>
            /\ localStorage'.heartedClubIds =
                 IF localStorage.writable /\ heartedIds' # heartedIds
                 THEN <<JSONstringify(heartedIds')>>
                 ELSE localStorage.heartedClubIds
            /\ localStorage'.userClubs =
                 IF localStorage.writable /\ userClubs' # userClubs
                 THEN <<JSONstringify(userClubs')>>
                 ELSE localStorage.userClubs
            /\ localStorage'.userRequests =
                 IF localStorage.writable /\ userRequests' # userRequests
                 THEN <<JSONstringify(userRequests')>>
                 ELSE localStorage.userRequests
        /\ Loaded =>
            /\ search' = <<>>
            /\ selectedTags' = <<>>
            /\ \E lost \in SUBSET StorageKeys :
                 /\ lost = {} \/ lastHandler' = "revisit"
                 /\ Cardinality(lost) <= 1
                 /\ IF "heartedClubIds" \in lost THEN heartedIds' = <<>>
                    ELSE Restored(heartedIds', localStorage.heartedClubIds)
                 /\ IF "userClubs" \in lost THEN userClubs' = <<>>
                    ELSE Restored(userClubs', localStorage.userClubs)
                 /\ IF "userRequests" \in lost THEN userRequests' = <<>>
                    ELSE Restored(userRequests', localStorage.userRequests)
            /\ localStorage.writable =>
                 /\ localStorage'.heartedClubIds = <<JSONstringify(heartedIds')>>
                 /\ localStorage'.userClubs = <<JSONstringify(userClubs')>>
                 /\ localStorage'.userRequests = <<JSONstringify(userRequests')>>
            /\ ~localStorage.writable =>
                 /\ localStorage'.heartedClubIds = localStorage.heartedClubIds
                 /\ localStorage'.userClubs = localStorage.userClubs
                 /\ localStorage'.userRequests = localStorage.userRequests]_vars

\* the page was refreshed while the store refused writes: the pin, the club
\* and the request written before are back, the search text is gone
C11_Witness ==
  /\ lastHandler = "reload"
  /\ ~localStorage.writable
  /\ heartedIds = <<clubsData[1].id>>
  /\ Len(userClubs) = 1
  /\ Len(userRequests) = 1
  /\ search = <<>>
  /\ selectedTags = <<>>

\* the positions of heartedIds whose id is the id of a merged club
PresentAt == {i \in 1..Len(heartedIds) : heartedIds[i] \in Ids(allClubs)}

\* the ids toggleHeart is tried on: those of the merged clubs, the hearted
\* ones, and one that no club and no heart has
PinProbes == Ids(allClubs) \cup Range(heartedIds) \cup {0}

\* C12: the pinned list holds, in the order of heartedIds, the merged club of
\* every hearted id that has one; a hearted id without a club is left out of
\* the pinned list and stays in heartedIds, which only toggleHeart and a load
\* change; and toggleHeart's update adds an absent id and removes a present
\* one whether or not a club has that id.
C12_Pinned ==
  /\ [](/\ Len(heartedClubs) = Cardinality(PresentAt)
        /\ \A k \in 1..Len(heartedClubs) :
             /\ heartedClubs[k].id = heartedIds[KthOf(PresentAt, k)]
             /\ \E j \in 1..Len(allClubs) : allClubs[j] = heartedClubs[k]
        /\ \A id \in PinProbes :
             LET after == toggleHeartUpdater(heartedIds, id)
             IN /\ (id \in Range(after)) # (id \in Range(heartedIds))
                /\ Range(after) \ {id} = Range(heartedIds) \ {id})
  /\ [][/\ lastHandler' \notin {"toggleHeart", "reload", "revisit"} =>
            heartedIds' = heartedIds
        /\ lastHandler' = "toggleHeart" =>
            \A x \in Range(heartedIds) \ Ids(allClubs) :
              x \in Range(heartedIds')]_vars

\* a club was pinned while a hearted id between two pinned clubs has no
\* club: the pinned list shows the two clubs, the id is still hearted
C12_Witness ==
  /\ lastHandler = "toggleHeart"
  /\ Len(heartedIds) = 3
  /\ heartedIds[2] \notin Ids(allClubs)
  /\ Len(heartedClubs) = 2
  /\ heartedClubs[1].id = heartedIds[1]
  /\ heartedClubs[2].id = heartedIds[3]
  /\ heartedClubs[1].id > heartedClubs[2].id

\* C13: for clubs, vendors and requests, the discover filter applied to the
\* list it returned, with the same query and selected tags, returns that
\* list, the same records in the same order; and the filter applied once
\* more to the same input returns what it returned before.
C13_Idempotent ==
  (call.fn = "discoverItems" /\ ret # <<>>) =>
    /\ Len(ret) = 2 => ret[2] = ret[1]
    /\ discoverItemsOf(call.mode, call.clubs, call.vendors, call.requests,
                       call.selectedTags, call.q) = ret[1]

\* of two clubs the filter kept one, under a tag and a query, and kept it
\* again
C13_Witness ==
  /\ call.fn = "discoverItems"
  /\ call.mode = "clubs"
  /\ call.selectedTags # <<>>
  /\ call.q # <<>>
  /\ Len(call.clubs) = 2
  /\ Len(ret) = 2
  /\ Len(ret[1]) = 1
  /\ Len(ret[2]) = 1

\* C14: heartedIds, empty at the start, never holds an id twice, and a
\* toggleHeart either puts an id that is not in it at its head, the others
\* keeping their order, or takes out one id that is in it, the others keeping
\* their order; so the ids stand most recently hearted first.
C14_HeartOrder ==
  /\ [](Distinct(heartedIds))
  /\ [][lastHandler' = "toggleHeart" =>
          \E id \in Ids(allClubs) :
            \/ /\ id \notin Range(heartedIds)
               /\ heartedIds' = <<id>> \o heartedIds
            \/ \E k \in 1..Len(heartedIds) :
                 /\ heartedIds[k] = id
                 /\ heartedIds' = RemoveAt(heartedIds, k)]_vars

\* three clubs are hearted, the first seed club most recently and a club
\* registered in the session before it
C14_Witness ==
  /\ lastHandler = "toggleHeart"
  /\ Len(heartedIds) = 3
  /\ heartedIds[1] = clubsData[1].id
  /\ heartedIds[3] \in Ids(userClubs)
  /\ heartedIds[2] \in Ids(clubsData)

\* two tags are the same tag once trimmed and lower-cased
SameTag(a, b) == toLowerCase(trim(a)) = toLowerCase(trim(b))

NoSameTags(list) ==
  \A i, j \in 1..Len(list) : i # j => ~SameTag(list[i], list[j])

\* after is before without every tag that is the same as tag where there is
\* one, the others in place, and otherwise before with tag put in front
Toggled(before, tag, after) ==
  IF \E i \in 1..Len(before) : SameTag(before[i], tag)
  THEN IsSelection(after, before,
                   {i \in 1..Len(before) : ~SameTag(before[i], tag)})
  ELSE /\ Len(after) = Len(before) + 1
       /\ after[1] = tag
       /\ \A i \in 1..Len(before) : after[i + 1] = before[i]

\* tags as a caller may write them
TagVariants ==
  { TagWomen, <<" ", "W", "o", "m", "e", "n">>, <<"w", "o", "m", "e", "n", " ">>,
    TagTechnology, <<>> }

TagLists ==
  { <<>> } \cup ShortLists(TagVariants)

\* C15: selectedTags never holds two tags that are the same once trimmed
\* and lower-cased.  toggleTag's update, on any list and tag, takes out every
\* tag that is the same as the given one where there is one and otherwise
\* puts the tag in front, and keeps a list without same tags so; a step
\* that changes selectedTags is such a toggle of a theme tag or a clearFilters;
\* clearFilters empties selectedTags and search; a step that changes the
\* discover mode leaves selectedTags, search and heartedIds as they were.
C15_Tags ==
  /\ [](/\ NoSameTags(selectedTags)
        /\ \A prev \in TagLists : \A tag \in TagVariants :
             /\ Toggled(prev, tag, toggleTagUpdater(prev, tag))
             /\ NoSameTags(prev) => NoSameTags(toggleTagUpdater(prev, tag)))
  /\ [][/\ lastHandler' = "clearFilters" =>
            /\ selectedTags' = <<>>
            /\ search' = <<>>
            /\ UNCHANGED <<heartedIds, discoverMode>>
        /\ (selectedTags' # selectedTags /\ lastHandler' # "clearFilters") =>
            /\ \E tag \in Range(themeTags) :
                 Toggled(selectedTags, tag, selectedTags')
            /\ UNCHANGED <<search, heartedIds, discoverMode>>
        /\ discoverMode' # discoverMode =>
            UNCHANGED <<selectedTags, search, heartedIds>>]_vars

\* two tags were selected, women last, a club was hearted and a search
\* typed, and the mode was changed to vendors, where they all still stand
C15_Witness ==
  /\ discoverMode = "vendors"
  /\ selectedTags = <<TagWomen, TagTechnology>>
  /\ search # <<>>
  /\ heartedIds # <<>>

====
